---- MODULE Spec2Model ----
(***************************************************************************)
(* Model of the Teams webhook relay of learn-google-adk:                   *)
(*   teams_handler.py  intent extraction, agent routing, message pipeline  *)
(*   app.py            webhook controller (signature, parsing, dispatch)   *)
(* Texts are sequences of one-character strings, so that lowercasing,      *)
(* substring tests, regular-expression search and capitalisation are       *)
(* computed the way the Python code computes them.                         *)
(***************************************************************************)
EXTENDS Integers, Sequences, FiniteSets, TLC

(***************************************************************************)
(* Characters and the str methods the handler uses                         *)
(***************************************************************************)
LowerLetters ==
  <<"a", "b", "c", "d", "e", "f", "g", "h", "i", "j", "k", "l", "m",
    "n", "o", "p", "q", "r", "s", "t", "u", "v", "w", "x", "y", "z">>

UpperLetters ==
  <<"A", "B", "C", "D", "E", "F", "G", "H", "I", "J", "K", "L", "M",
    "N", "O", "P", "Q", "R", "S", "T", "U", "V", "W", "X", "Y", "Z">>

LowerSet == {LowerLetters[i] : i \in 1..26}

UpperSet == {UpperLetters[i] : i \in 1..26}

\* Characters that str.strip(), str.split() and the regex class \s treat as blank.
Whitespace == {" ", "\t", "\n", "\r"}

\* str.lower() on one character.
LowerChar(c) ==
  IF c \in UpperSet
    THEN LowerLetters[CHOOSE i \in 1..26 : UpperLetters[i] = c]
    ELSE c

\* str.upper() on one character.
UpperChar(c) ==
  IF c \in LowerSet
    THEN UpperLetters[CHOOSE i \in 1..26 : LowerLetters[i] = c]
    ELSE c

\* str.lower()
Lower(s) == [i \in 1..Len(s) |-> LowerChar(s[i])]

RECURSIVE LStrip(_)
LStrip(s) ==
  IF s # <<>> /\ Head(s) \in Whitespace THEN LStrip(Tail(s)) ELSE s

RECURSIVE RStrip(_)
RStrip(s) ==
  IF s # <<>> /\ s[Len(s)] \in Whitespace
    THEN RStrip(SubSeq(s, 1, Len(s) - 1))
    ELSE s

\* str.strip()
Strip(s) == RStrip(LStrip(s))

\* The length of the run of non-blank characters of s starting at position p.
RECURSIVE WordLen(_, _)
WordLen(s, p) ==
  IF p > Len(s) \/ s[p] \in Whitespace THEN 0 ELSE 1 + WordLen(s, p + 1)

\* str.split(): the maximal runs of non-blank characters, in order.
RECURSIVE SplitFrom(_, _)
SplitFrom(s, p) ==
  IF p > Len(s) THEN <<>>
  ELSE IF s[p] \in Whitespace THEN SplitFrom(s, p + 1)
  ELSE LET n == WordLen(s, p)
       IN  <<SubSeq(s, p, p + n - 1)>> \o SplitFrom(s, p + n)

Split(s) == SplitFrom(s, 1)

\* str.capitalize(): first character upper-cased, the rest lower-cased.
Capitalize(w) ==
  [i \in 1..Len(w) |-> IF i = 1 THEN UpperChar(w[i]) ELSE LowerChar(w[i])]

\* ' '.join(words)
RECURSIVE JoinSpace(_)
JoinSpace(words) ==
  IF words = <<>> THEN <<>>
  ELSE IF Len(words) = 1 THEN words[1]
  ELSE words[1] \o <<" ">> \o JoinSpace(Tail(words))

\* `w in s` for strings.
Contains(s, w) ==
  \E i \in 1..(Len(s) - Len(w) + 1) : SubSeq(s, i, i + Len(w) - 1) = w

\* Python's None where a string is optional (no text is the one-element
\* sequence holding this word, which no text of characters can equal).
None == <<"None">>

(***************************************************************************)
(* A backtracking matcher with the priorities of Python's re module:       *)
(* alternatives left to right, greedy + longest first, lazy +? shortest    *)
(* first, search from the leftmost start.  A pattern is a sequence of      *)
(* elements; the alternatives of an alternation are patterns themselves.   *)
(***************************************************************************)
Lit(w) == [t |-> "lit", w |-> w]

Alt(alts) == [t |-> "alt", alts |-> alts]

\* (?:w1|w2|...) over literal words
Words(ws) == [t |-> "words", ws |-> ws]

\* \s+
Spaces == [t |-> "plus", cls |-> "space"]

\* ([A-Za-z\s]+?), capture group 1
Group1 == [t |-> "group", cls |-> "alphaspace"]

\* $
EndAnchor == [t |-> "end"]

\* (?:\?|$|\.)
Terminator == Alt(<< <<Lit(<<"?">>)>>, <<EndAnchor>>, <<Lit(<<".">>)>> >>)

\* [A-Za-z\s]
AlphaSpace == LowerSet \cup UpperSet \cup Whitespace

InClass(c, cls) ==
  IF cls = "space" THEN c \in Whitespace ELSE c \in AlphaSpace

RECURSIVE RunLen(_, _, _)
RunLen(s, p, cls) ==
  IF p > Len(s) \/ ~InClass(s[p], cls) THEN 0 ELSE 1 + RunLen(s, p + 1, cls)

NoMatch == [ok |-> FALSE, from |-> 0, to |-> 0]

RECURSIVE Match(_, _, _, _)
RECURSIVE TryAlts(_, _, _, _, _, _)
RECURSIVE TryWords(_, _, _, _, _, _)
RECURSIVE TryCounts(_, _, _, _, _, _, _)

\* Match pattern re against s at position pos; g is group 1 so far.
Match(s, re, pos, g) ==
  IF re = <<>> THEN [ok |-> TRUE, from |-> g[1], to |-> g[2]]
  ELSE LET e == Head(re)
           rest == Tail(re)
       IN  CASE e.t = "lit" ->
                  IF pos + Len(e.w) - 1 <= Len(s)
                     /\ SubSeq(s, pos, pos + Len(e.w) - 1) = e.w
                    THEN Match(s, rest, pos + Len(e.w), g)
                    ELSE NoMatch
             [] e.t = "words" -> TryWords(s, e.ws, 1, rest, pos, g)
             [] e.t = "alt" -> TryAlts(s, e.alts, 1, rest, pos, g)
             [] e.t = "end" ->
                  IF pos = Len(s) + 1 \/ (pos = Len(s) /\ s[pos] = "\n")
                    THEN Match(s, rest, pos, g)
                    ELSE NoMatch
             [] OTHER ->
                  LET mx == RunLen(s, pos, e.cls)
                  IN  IF mx = 0 THEN NoMatch
                      ELSE TryCounts(s, e, rest, pos, g,
                                     IF e.t = "group" THEN 1 ELSE mx, mx)

TryAlts(s, alts, i, rest, pos, g) ==
  IF i > Len(alts) THEN NoMatch
  ELSE LET r == Match(s, alts[i] \o rest, pos, g)
       IN  IF r.ok THEN r ELSE TryAlts(s, alts, i + 1, rest, pos, g)

\* The alternatives are literal words: the first that is at pos and lets the
\* rest match.
TryWords(s, ws, i, rest, pos, g) ==
  IF i > Len(ws) THEN NoMatch
  ELSE LET n == Len(ws[i])
           r == IF pos + n - 1 <= Len(s) /\ SubSeq(s, pos, pos + n - 1) = ws[i]
                  THEN Match(s, rest, pos + n, g)
                  ELSE NoMatch
       IN  IF r.ok THEN r ELSE TryWords(s, ws, i + 1, rest, pos, g)

\* e repeated n times, then the rest; on failure the next n in priority order.
TryCounts(s, e, rest, pos, g, n, mx) ==
  IF n < 1 \/ n > mx THEN NoMatch
  ELSE LET g2 == IF e.t = "group" THEN <<pos, pos + n - 1>> ELSE g
           r == Match(s, rest, pos + n, g2)
       IN  IF r.ok THEN r
           ELSE TryCounts(s, e, rest, pos, g,
                          IF e.t = "group" THEN n + 1 ELSE n - 1, mx)

RECURSIVE SearchFrom(_, _, _)
SearchFrom(s, re, i) ==
  IF i > Len(s) + 1 THEN NoMatch
  ELSE LET r == Match(s, re, i, <<0, 0>>)
       IN  IF r.ok THEN r ELSE SearchFrom(s, re, i + 1)

\* re.search(pattern, s)
Search(s, re) == SearchFrom(s, re, 1)

(***************************************************************************)
(* teams_handler.py: intent extraction                                     *)
(***************************************************************************)
MessageIntent ==
  [WEATHER |-> "weather", TIME |-> "time", TRAFFIC |-> "traffic",
   HELP |-> "help", UNKNOWN |-> "unknown"]

Topics == <<<<"w", "e", "a", "t", "h", "e", "r">>, <<"t", "i", "m", "e">>, <<"t", "r", "a", "f", "f", "i", "c">>>>

Preps == <<<<"i", "n">>, <<"f", "o", "r">>, <<"a", "t">>>>

\* The four regular expressions of extract_city_from_text, in list order.
common_patterns ==
  << <<Words(Topics), Spaces, Words(Preps), Spaces, Group1, Terminator>>,
     <<Words(<<<<"w", "h", "a", "t", "'", "s">>, <<"w", "h", "a", "t", " ", "i", "s">>, <<"w", "h", "a", "t", "s">>>>), Spaces, Lit(<<"t", "h", "e">>), Spaces,
       Words(Topics), Spaces, Words(Preps), Spaces, Group1, Terminator>>,
     <<Words(<<<<"h", "o", "w", "'", "s">>, <<"h", "o", "w", " ", "i", "s">>, <<"h", "o", "w", "s">>>>), Spaces,
       Alt(<< <<Lit(<<"t", "h", "e">>), Spaces>>, <<>> >>),
       Words(<<<<"w", "e", "a", "t", "h", "e", "r">>, <<"t", "r", "a", "f", "f", "i", "c">>>>), Spaces, Words(Preps), Spaces,
       Group1, Terminator>>,
     <<Group1, Spaces, Words(Topics)>> >>

default_cities ==
  <<<<"n", "e", "w", " ", "y", "o", "r", "k">>, <<"l", "o", "s", " ", "a", "n", "g", "e", "l", "e", "s">>, <<"c", "h", "i", "c", "a", "g", "o">>, <<"h", "o", "u", "s", "t", "o", "n">>, <<"p", "h", "o", "e", "n", "i", "x">>>>

DefaultCity == <<"N", "e", "w", " ", "Y", "o", "r", "k">>

\* ' '.join(word.capitalize() for word in city.split())
NormalizeCity(city) ==
  LET words == Split(city)
  IN  JoinSpace([i \in 1..Len(words) |-> Capitalize(words[i])])

\* A variant that returns the known city as it is written in the list.
RECURSIVE KnownCityFrom_Raw(_, _)
KnownCityFrom_Raw(text_lower, i) ==
  IF i > Len(default_cities) THEN DefaultCity
  ELSE IF Contains(text_lower, default_cities[i])
    THEN default_cities[i]
    ELSE KnownCityFrom_Raw(text_lower, i + 1)

\* The loop over default_cities, from index i on.
RECURSIVE KnownCityFrom(_, _)
KnownCityFrom(text_lower, i) ==
  IF i > Len(default_cities) THEN DefaultCity
  ELSE IF Contains(text_lower, default_cities[i])
    THEN NormalizeCity(default_cities[i])
    ELSE KnownCityFrom(text_lower, i + 1)

\* The loop over common_patterns, from index i on, then the fallbacks.
RECURSIVE PatternCityFrom(_, _)
PatternCityFrom(text_lower, i) ==
  IF i > Len(common_patterns) THEN KnownCityFrom(text_lower, 1)
  ELSE LET m == Search(text_lower, common_patterns[i])
       IN  IF m.ok
             THEN NormalizeCity(Strip(SubSeq(text_lower, m.from, m.to)))
             ELSE PatternCityFrom(text_lower, i + 1)

\* A variant that looks for a known city before it tries the patterns.
extract_city_KnownFirst(text) ==
  IF \E i \in 1..Len(default_cities) : Contains(Lower(text), default_cities[i])
    THEN KnownCityFrom(Lower(text), 1)
    ELSE PatternCityFrom(Lower(text), 1)

extract_city_from_text(text) == PatternCityFrom(Lower(text), 1)

weather_keywords ==
  <<<<"w", "e", "a", "t", "h", "e", "r">>, <<"t", "e", "m", "p", "e", "r", "a", "t", "u", "r", "e">>, <<"f", "o", "r", "e", "c", "a", "s", "t">>, <<"r", "a", "i", "n">>, <<"s", "u", "n", "n", "y">>, <<"c", "l", "o", "u", "d", "y">>>>

time_keywords == <<<<"t", "i", "m", "e">>, <<"c", "l", "o", "c", "k">>, <<"h", "o", "u", "r">>, <<"t", "i", "m", "e", "z", "o", "n", "e">>, <<"w", "h", "a", "t", " ", "t", "i", "m", "e">>>>

traffic_keywords ==
  <<<<"t", "r", "a", "f", "f", "i", "c">>, <<"c", "o", "n", "g", "e", "s", "t", "i", "o", "n">>, <<"r", "o", "a", "d", "s">>, <<"c", "o", "m", "m", "u", "t", "e">>, <<"d", "r", "i", "v", "i", "n", "g">>>>

help_keywords ==
  <<<<"h", "e", "l", "p">>, <<"h", "e", "l", "l", "o">>, <<"h", "i">>, <<"h", "e", "y">>, <<"s", "t", "a", "r", "t">>, <<"c", "o", "m", "m", "a", "n", "d", "s">>, <<"w", "h", "a", "t", " ", "c", "a", "n", " ", "y", "o", "u", " ", "d", "o">>>>

\* for keyword in keywords: if keyword in text_lower
AnyKeyword(keywords, text_lower) ==
  \E i \in 1..Len(keywords) : Contains(text_lower, keywords[i])

\* A variant that scans the traffic keywords before the time keywords.
parse_message_intent_TrafficFirst(text) ==
  IF text = None \/ text = <<>> THEN <<MessageIntent.HELP, None>>
  ELSE LET text_lower == Strip(Lower(text))
           city == extract_city_from_text(text)
       IN  IF AnyKeyword(weather_keywords, text_lower)
             THEN <<MessageIntent.WEATHER, city>>
           ELSE IF AnyKeyword(traffic_keywords, text_lower)
             THEN <<MessageIntent.TRAFFIC, city>>
           ELSE IF AnyKeyword(time_keywords, text_lower)
             THEN <<MessageIntent.TIME, city>>
           ELSE IF AnyKeyword(help_keywords, text_lower)
             THEN <<MessageIntent.HELP, None>>
           ELSE <<MessageIntent.UNKNOWN, None>>

\* Returns the pair <<intent, city>>.
parse_message_intent(text) ==
  IF text = None \/ text = <<>> THEN <<MessageIntent.HELP, None>>
  ELSE LET text_lower == Strip(Lower(text))
           city == extract_city_from_text(text)
       IN  IF AnyKeyword(weather_keywords, text_lower)
             THEN <<MessageIntent.WEATHER, city>>
           ELSE IF AnyKeyword(time_keywords, text_lower)
             THEN <<MessageIntent.TIME, city>>
           ELSE IF AnyKeyword(traffic_keywords, text_lower)
             THEN <<MessageIntent.TRAFFIC, city>>
           ELSE IF AnyKeyword(help_keywords, text_lower)
             THEN <<MessageIntent.HELP, None>>
           ELSE <<MessageIntent.UNKNOWN, None>>

(***************************************************************************)
(* teams_handler.py: agent routing                                         *)
(***************************************************************************)
\* A key a dict does not have.
Absent == <<"Absent">>

WeatherTimeAgent == "weather_time_agent"

TrafficAgent == "traffic_agent"

\* What agent.run(prompt) does: returns its reply, or raises.
AgentOutcomes == {"reply", "ImportError", "Exception"}

\* Python values the formatter inspects: a str (its characters), None, a dict
\* (a record of its keys; the empty dict has none).
Str(s) == [py |-> "str", val |-> s]

PyNone == [py |-> "NoneType", val |-> <<>>]

Dict(d) == [py |-> "dict", val |-> d]

EmptyDict == Dict(<<>>)

\* The replies agent.run gives: strings, and a value that is no string.
AgentReplies ==
  {Str(<<"H", "e", "a", "v", "y", " ", "t", "r", "a", "f", "f", "i", "c">>), Str(<<"l", "i", "g", "h", "t", ",", " ", "n", "o", "t", " ", "h", "e", "a", "v", "y">>),
   Str(<<"L", "i", "g", "h", "t", " ", "t", "r", "a", "f", "f", "i", "c">>), Str(<<"S", "u", "n", "n", "y", " ", "t", "i", "m", "e">>), PyNone}

HelpEnvelope ==
  [type |-> "help",
   city |-> Absent,
   data |-> Dict([message |-> "I can help you with weather, time, and traffic information!",
                  commands |-> <<"What's the weather in [city]?",
                                 "What time is it in [city]?",
                                 "How's the traffic in [city]?">>]),
   status |-> "success"]

ErrorEnvelope(message) ==
  [type |-> "error", city |-> Absent, data |-> Dict([message |-> message]),
   status |-> "error"]

NotUnderstood ==
  "I didn't understand that. Try asking about weather, time, or traffic!"

Unavailable == "Agent service is temporarily unavailable"

RoutingFailed == "An error occurred while processing your request"

\* The f-string prompt of each agent intent.
Prompt(intent, city) ==
  IF intent = MessageIntent.WEATHER
    THEN <<"W", "h", "a", "t", "'", "s", " ", "t", "h", "e", " ", "w", "e", "a", "t", "h", "e", "r", " ", "i", "n", " ">> \o city \o <<"?">>
  ELSE IF intent = MessageIntent.TIME
    THEN <<"W", "h", "a", "t", " ", "t", "i", "m", "e", " ", "i", "s", " ", "i", "t", " ", "i", "n", " ">> \o city \o <<"?">>
  ELSE <<"H", "o", "w", "'", "s", " ", "t", "h", "e", " ", "t", "r", "a", "f", "f", "i", "c", " ", "i", "n", " ">> \o city \o <<"?">>

\* A variant that replaces an absent city only, not an empty one.
CityOrDefault_NoneOnly(city) == IF city = None THEN DefaultCity ELSE city

\* city or "New York"
CityOrDefault(city) == IF city = None \/ city = <<>> THEN DefaultCity ELSE city

\* No envelope: route_to_agent has not returned one.
NoEnvelope == [type |-> "none", city |-> Absent, data |-> EmptyDict,
               status |-> "none"]

\* A variant without the last except branch: an exception of run that is
\* no ImportError leaves the function.
route_to_agent_NoCatch(intent, city0, loadable, outcome, reply) ==
  IF ~loadable
    THEN [envelope |-> ErrorEnvelope(Unavailable), calls |-> <<>>,
          raised |-> "none"]
  ELSE IF intent \in {MessageIntent.WEATHER, MessageIntent.TIME,
                      MessageIntent.TRAFFIC}
    THEN LET city == CityOrDefault(city0)
             call == [agent |-> IF intent = MessageIntent.TRAFFIC
                                  THEN TrafficAgent ELSE WeatherTimeAgent,
                      prompt |-> Prompt(intent, city)]
         IN  IF outcome = "ImportError"
               THEN [envelope |-> ErrorEnvelope(Unavailable),
                     calls |-> <<call>>, raised |-> "none"]
             ELSE IF outcome = "Exception"
               THEN [envelope |-> NoEnvelope,
                     calls |-> <<call>>, raised |-> "Exception"]
             ELSE [envelope |-> [type |-> intent, city |-> city,
                                 data |-> reply,
                                 status |-> "success"],
                   calls |-> <<call>>, raised |-> "none"]
  ELSE IF intent = MessageIntent.HELP
    THEN [envelope |-> HelpEnvelope, calls |-> <<>>, raised |-> "none"]
  ELSE [envelope |-> ErrorEnvelope(NotUnderstood), calls |-> <<>>,
        raised |-> "none"]

\* route_to_agent when a run that raised is tried a second time.
route_to_agent_Retry(intent, city0, loadable, outcome, reply) ==
  LET r == route_to_agent_NoCatch(intent, city0, loadable, outcome, reply)
  IN  IF r.raised = "none"
        THEN r
        ELSE [envelope |-> ErrorEnvelope(RoutingFailed),
              calls |-> r.calls \o r.calls, raised |-> "none"]

\* The envelope returned, the agent calls made and the exception that leaves
\* the function ("none": it returns), given whether the agent module can be
\* imported, what run does and the reply it would give.
route_to_agent(intent, city0, loadable, outcome, reply) ==
  IF ~loadable
    THEN [envelope |-> ErrorEnvelope(Unavailable), calls |-> <<>>,
          raised |-> "none"]
  ELSE IF intent \in {MessageIntent.WEATHER, MessageIntent.TIME,
                      MessageIntent.TRAFFIC}
    THEN LET city == CityOrDefault(city0)
             call == [agent |-> IF intent = MessageIntent.TRAFFIC
                                  THEN TrafficAgent ELSE WeatherTimeAgent,
                      prompt |-> Prompt(intent, city)]
         IN  IF outcome = "ImportError"
               THEN [envelope |-> ErrorEnvelope(Unavailable),
                     calls |-> <<call>>, raised |-> "none"]
             ELSE IF outcome = "Exception"
               THEN [envelope |-> ErrorEnvelope(RoutingFailed),
                     calls |-> <<call>>, raised |-> "none"]
             ELSE [envelope |-> [type |-> intent, city |-> city,
                                 data |-> reply,
                                 status |-> "success"],
                   calls |-> <<call>>, raised |-> "none"]
  ELSE IF intent = MessageIntent.HELP
    THEN [envelope |-> HelpEnvelope, calls |-> <<>>, raised |-> "none"]
  ELSE [envelope |-> ErrorEnvelope(NotUnderstood), calls |-> <<>>,
        raised |-> "none"]

(***************************************************************************)
(* adaptive_cards.py: the cards                                            *)
(***************************************************************************)
CardContentType == "application/vnd.microsoft.card.adaptive"

\* A text of a card: a fixed string, with the value an f-string inserts
\* (<<>> when the text is fixed).
Text(fmt, arg) == [fmt |-> fmt, arg |-> arg]

\* datetime.now() formatted: the clock's reading is not modelled.
ClockText == Text("{now}", <<>>)

TextBlock(text) == [type |-> "TextBlock", text |-> text]

\* style "" stands for a container without a style key.
Container(style, items) ==
  [type |-> "Container", style |-> style, items |-> items]

Fact(title, value) == [title |-> title, value |-> value]

FactSet(facts) == [type |-> "FactSet", facts |-> facts]

Submit(title, action, text) ==
  [type |-> "Action.Submit", title |-> title,
   data |-> [action |-> action, text |-> text]]

\* The attachment every builder returns; actions <<>> stands for a card
\* without an actions key.
AdaptiveCard(body, actions) ==
  [contentType |-> CardContentType,
   content |-> [type |-> "AdaptiveCard", version |-> "1.4", body |-> body,
                actions |-> actions]]

\* No card: format_agent_response has not returned one.
NoCard ==
  [contentType |-> "none",
   content |-> [type |-> "none", version |-> "", body |-> <<>>,
                actions |-> <<>>]]

\* What an f-string makes of a city: str(None) is "None".
PyFormat(v) == IF v = None THEN <<"N", "o", "n", "e">> ELSE v

\* data[:200] if len(data) > 200 else data
Forecast(data) == IF Len(data) > 200 THEN SubSeq(data, 1, 200) ELSE data

extract_weather_info(data) ==
  [temperature |-> Text("72F", <<>>),
   condition |-> Text("Partly Cloudy", <<>>),
   humidity |-> Text("65%", <<>>),
   wind_speed |-> Text("10 mph", <<>>),
   forecast |-> IF data.py = "str" THEN Text("{}", Forecast(data.val))
                ELSE Text("Pleasant weather expected throughout the day.",
                          <<>>)]

\* Both branches return the same clock readings.
extract_time_info(data) ==
  [current_time |-> ClockText, date |-> ClockText,
   timezone |-> Text("EST", <<>>), utc_offset |-> Text("UTC-5", <<>>)]

\* extract_traffic_info when "light" is looked for before "heavy".
extract_traffic_info_LightFirst(data) ==
  IF data.py = "str" /\ Contains(Lower(data.val), <<"l", "i", "g", "h", "t">>)
    THEN [status |-> "Light", average_speed |-> "45 mph",
          congestion |-> "Low", incidents |-> "No incidents",
          recommendation |-> "Good time to travel. All routes clear."]
  ELSE IF data.py = "str" /\ Contains(Lower(data.val), <<"h", "e", "a", "v", "y">>)
    THEN [status |-> "Heavy", average_speed |-> "15 mph",
          congestion |-> "High", incidents |-> "3 accidents reported",
          recommendation |-> "Avoid main highways. Use alternative routes."]
  ELSE [status |-> "Moderate", average_speed |-> "25 mph",
        congestion |-> "Medium", incidents |-> "2 minor delays",
        recommendation |-> "Consider alternative routes during peak hours."]

extract_traffic_info(data) ==
  IF data.py = "str" /\ Contains(Lower(data.val), <<"h", "e", "a", "v", "y">>)
    THEN [status |-> "Heavy", average_speed |-> "15 mph",
          congestion |-> "High", incidents |-> "3 accidents reported",
          recommendation |-> "Avoid main highways. Use alternative routes."]
  ELSE IF data.py = "str" /\ Contains(Lower(data.val), <<"l", "i", "g", "h", "t">>)
    THEN [status |-> "Light", average_speed |-> "45 mph",
          congestion |-> "Low", incidents |-> "No incidents",
          recommendation |-> "Good time to travel. All routes clear."]
  ELSE [status |-> "Moderate", average_speed |-> "25 mph",
        congestion |-> "Medium", incidents |-> "2 minor delays",
        recommendation |-> "Consider alternative routes during peak hours."]

create_weather_card(city, data) ==
  LET weather_info == extract_weather_info(data)
  IN  AdaptiveCard(
        <<Container("", <<TextBlock(Text("Weather in {city}", PyFormat(city))),
                          TextBlock(ClockText)>>),
          Container("", <<FactSet(<<Fact("Temperature", weather_info.temperature),
                                    Fact("Condition", weather_info.condition),
                                    Fact("Humidity", weather_info.humidity),
                                    Fact("Wind Speed", weather_info.wind_speed)>>)>>),
          TextBlock(weather_info.forecast)>>,
        <<>>)

create_time_card(city, data) ==
  LET time_info == extract_time_info(data)
  IN  AdaptiveCard(
        <<Container("", <<TextBlock(Text("Time in {city}", PyFormat(city)))>>),
          Container("", <<TextBlock(time_info.current_time),
                          TextBlock(time_info.date)>>),
          FactSet(<<Fact("Timezone", time_info.timezone),
                    Fact("UTC Offset", time_info.utc_offset)>>)>>,
        <<>>)

\* A variant of the lookup with the entries of Light and Heavy exchanged.
status_color_Swapped(status) ==
  IF status = "Light" THEN "Attention"
  ELSE IF status = "Moderate" THEN "Warning"
  ELSE IF status = "Heavy" THEN "Good"
  ELSE IF status = "Severe" THEN "Attention"
  ELSE "Default"

\* {"Light": "Good", ...}.get(status, "Default")
status_color(status) ==
  IF status = "Light" THEN "Good"
  ELSE IF status = "Moderate" THEN "Warning"
  ELSE IF status = "Heavy" THEN "Attention"
  ELSE IF status = "Severe" THEN "Attention"
  ELSE "Default"

create_traffic_card(city, data) ==
  LET traffic_info == extract_traffic_info(data)
  IN  AdaptiveCard(
        <<Container("", <<TextBlock(Text("Traffic in {city}", PyFormat(city))),
                          TextBlock(ClockText)>>),
          Container(status_color(traffic_info.status),
                    <<TextBlock(Text("Status: {status}",
                                     <<traffic_info.status>>))>>),
          FactSet(<<Fact("Average Speed", Text(traffic_info.average_speed, <<>>)),
                    Fact("Congestion Level", Text(traffic_info.congestion, <<>>)),
                    Fact("Incidents", Text(traffic_info.incidents, <<>>))>>),
          TextBlock(Text(traffic_info.recommendation, <<>>))>>,
        <<>>)

create_help_card ==
  AdaptiveCard(
    <<Container("", <<TextBlock(Text("Welcome to ADK Weather Bot!", <<>>)),
                      TextBlock(Text("I can help you with weather, time, and traffic information for any city.", <<>>))>>),
      Container("", <<TextBlock(Text("**Available Commands:**", <<>>)),
                      TextBlock(Text("What's the weather in [city]?", <<>>)),
                      TextBlock(Text("What time is it in [city]?", <<>>)),
                      TextBlock(Text("How's the traffic in [city]?", <<>>))>>),
      Container("", <<TextBlock(Text("**Examples:**", <<>>)),
                      TextBlock(Text("\"What's the weather in New York?\"", <<>>)),
                      TextBlock(Text("\"What time is it in London?\"", <<>>)),
                      TextBlock(Text("\"How's traffic in Los Angeles?\"", <<>>))>>)>>,
    <<Submit("Check Weather", "weather", <<"W", "h", "a", "t", "'", "s", " ", "t", "h", "e", " ", "w", "e", "a", "t", "h", "e", "r", " ", "i", "n", " ", "N", "e", "w", " ", "Y", "o", "r", "k", "?">>),
      Submit("Check Time", "time", <<"W", "h", "a", "t", " ", "t", "i", "m", "e", " ", "i", "s", " ", "i", "t", " ", "i", "n", " ", "N", "e", "w", " ", "Y", "o", "r", "k", "?">>),
      Submit("Check Traffic", "traffic", <<"H", "o", "w", "'", "s", " ", "t", "r", "a", "f", "f", "i", "c", " ", "i", "n", " ", "N", "e", "w", " ", "Y", "o", "r", "k", "?">>)>>)

create_error_card(message) ==
  AdaptiveCard(
    <<Container("attention", <<TextBlock(Text("Error", <<>>)),
                               TextBlock(Text(message, <<>>))>>),
      Container("", <<TextBlock(Text("Please try again or type 'help' for available commands.", <<>>))>>)>>,
    <<Submit("Get Help", "help", <<"h", "e", "l", "p">>)>>)

(***************************************************************************)
(* adaptive_cards.py: format_agent_response                                *)
(***************************************************************************)
\* A key the envelope does not have: its type, its data.
NoType == "<absent>"

PyAbsent == [py |-> "absent", val |-> <<>>]

\* What a call gives: the card it returns, or the exception it raises.
Return(card) == [raised |-> "none", card |-> card]

Raise(exception) == [raised |-> exception, card |-> NoCard]

FormatFailed == "Failed to format response. Please try again."

\* The try block of format_agent_response.  import pytz, the first statement
\* extract_time_info executes, raises ImportError when pytz is not
\* installed; data.get raises AttributeError when data is no dict.
BuildCard(response, pytz) ==
  LET response_type == IF response.type = NoType THEN "unknown"
                       ELSE response.type
      city == IF response.city = Absent THEN <<"U", "n", "k", "n", "o", "w", "n">> ELSE response.city
      data == IF response.data = PyAbsent THEN EmptyDict ELSE response.data
  IN  IF response_type = "weather"
        THEN Return(create_weather_card(city, data))
      ELSE IF response_type = "time"
        THEN IF pytz THEN Return(create_time_card(city, data))
             ELSE Raise("ImportError")
      ELSE IF response_type = "traffic"
        THEN Return(create_traffic_card(city, data))
      ELSE IF response_type = "help" THEN Return(create_help_card)
      ELSE IF response_type = "error"
        THEN IF data.py # "dict" THEN Raise("AttributeError")
             ELSE Return(create_error_card(
                    IF "message" \in DOMAIN data.val THEN data.val.message
                    ELSE "An error occurred"))
      ELSE Return(create_error_card(
             "I didn't understand your request. Please try again."))

\* A variant without the except branch.
format_agent_response_NoCatch(response, pytz) == BuildCard(response, pytz)

\* The card returned, or the exception that leaves the function, given
\* whether pytz can be imported.
format_agent_response(response, pytz) ==
  IF BuildCard(response, pytz).raised = "none"
    THEN BuildCard(response, pytz)
  ELSE Return(create_error_card(FormatFailed))

(***************************************************************************)
(* app.py: configuration and signature check                               *)
(***************************************************************************)
\* The environment variable WEBHOOK_SECRET is not set.
Unset == "<unset>"

DefaultSecret == "your-webhook-secret"

\* os.getenv('WEBHOOK_SECRET', 'your-webhook-secret')
WEBHOOK_SECRET(env) == IF env = Unset THEN DefaultSecret ELSE env

\* hmac.new(key, msg, sha256).hexdigest(): a value fixed by key and message.
Hmac(key, msg) == [kind |-> "hex", key |-> key, msg |-> msg]

\* request.headers.get("X-Teams-Signature", "") when the header is missing.
EmptySignature(msg) == [kind |-> "empty", key |-> "", msg |-> msg]

\* A header value holding a character outside ASCII.
NonAsciiSignature(msg) == [kind |-> "nonascii", key |-> "", msg |-> msg]

\* hmac.compare_digest on two str: raises TypeError unless both are ASCII.
compare_digest(a, b) ==
  IF a.kind = "nonascii" THEN "TypeError"
  ELSE IF a = b THEN "True" ELSE "False"

\* "True", "False", or the exception raised.
verify_hmac_signature(secret, request_body, signature) ==
  IF secret = "" THEN "True"
  ELSE compare_digest(signature, Hmac(secret, request_body))

REQUEST_TIMEOUT == 30

(***************************************************************************)
(* Input texts: every concatenation of at most MaxFrags fragments          *)
(***************************************************************************)
MaxFrags == 3

Fragments ==
  {<<"w", "e", "a", "t", "h", "e", "r">>, <<" ", "w", "e", "a", "t", "h", "e", "r", " ", "i", "n", " ">>, <<"L", "o", "n", "d", "o", "n">>, <<"c", "h", "i", "c", "a", "g", "o">>, <<"h", "o", "u", "s", "t", "o", "n">>,
   <<" ">>, <<"?">>, <<"t", "i", "m", "e">>, <<"h", "e", "l", "p">>, <<"t", "r", "a", "f", "f", "i", "c">>}

RECURSIVE TextsUpTo(_)
TextsUpTo(n) ==
  IF n = 0 THEN {<<>>}
  ELSE LET T == TextsUpTo(n - 1)
       IN  T \cup {t \o f : t \in T, f \in Fragments}

Texts == TextsUpTo(MaxFrags)

\* The data of the Submit actions the cards offer: the three buttons of the
\* help card and the Get Help button of the error card.
SubmitData ==
  UNION {{c.content.actions[i].data : i \in DOMAIN c.content.actions} :
           c \in {create_help_card, create_error_card(NotUnderstood)}}

\* Their texts, which come back as the text of a message.
SubmitTexts == {d.text : d \in SubmitData}

(***************************************************************************)
(* Webhook requests                                                        *)
(***************************************************************************)
\* The "text" values of message activities (Absent: no key, None: JSON null).
PayloadTexts ==
  {Absent, None, <<>>, <<" ", " ", " ">>, <<"h", "e", "l", "p">>, <<"W", "h", "a", "t", "'", "s", " ", "t", "h", "e", " ", "w", "e", "a", "t", "h", "e", "r", " ", "i", "n", " ", "L", "o", "n", "d", "o", "n", "?">>,
   <<"t", "i", "m", "e", " ", "i", "n", " ", "c", "h", "i", "c", "a", "g", "o">>, <<"h", "o", "w", "'", "s", " ", "t", "h", "e", " ", "t", "r", "a", "f", "f", "i", "c", " ", "i", "n", " ", "h", "o", "u", "s", "t", "o", "n", "?">>, <<"l", "o", "n", "d", "o", "n", "?">>,
   <<"w", "e", "a", "t", "h", "e", "r", " ", "i", "n", " ", " ", "?">>, <<"c", "h", "i", "c", "a", "g", "o", " ", "w", "e", "a", "t", "h", "e", "r", " ", "i", "n", " ", "L", "o", "n", "d", "o", "n">>,
   <<"W", "h", "a", "t", " ", "t", "i", "m", "e", " ", "i", "s", " ", "i", "t", " ", "i", "n", " ", "N", "e", "w", " ", "Y", "o", "r", "k", "?">>}

\* The values of "from" and of "conversation" in the bodies: an object, no
\* key, or JSON null.
Parties ==
  {<<"dict", "dict">>, <<"absent", "absent">>, <<"null", "dict">>,
   <<"dict", "null">>}

NoPayload ==
  [type |-> "", text |-> Absent, from |-> "absent", conversation |-> "absent"]

\* Request bodies: json is what request.json() makes of the raw bytes.
Bodies ==
  {[json |-> "invalid", payload |-> NoPayload],
   [json |-> "array", payload |-> NoPayload]}
  \cup {[json |-> "object",
         payload |-> [type |-> ty, text |-> <<"h", "e", "l", "p">>,
                      from |-> p[1], conversation |-> p[2]]] :
          ty \in {"typing", "<absent>"}, p \in Parties}
  \cup {[json |-> "object",
         payload |-> [type |-> "message", text |-> tx, from |-> p[1],
                      conversation |-> p[2]]] :
          tx \in PayloadTexts, p \in Parties}

\* A body that differs from b.
OtherBody(b) ==
  IF b.json = "invalid" THEN [json |-> "array", payload |-> NoPayload]
  ELSE [json |-> "invalid", payload |-> NoPayload]

ConfiguredSecret == "s3cret"

\* The longest run call, in seconds.
MaxSeconds == 31

\* How long a run call takes.
AgentSeconds == {1, REQUEST_TIMEOUT, MaxSeconds}

Signatures(b) ==
  {Hmac(ConfiguredSecret, b), Hmac(DefaultSecret, b),
   Hmac(ConfiguredSecret, OtherBody(b)), EmptySignature(b),
   NonAsciiSignature(b)}

\* What process_teams_message returns: a message with the card attached,
\* or the apology of its except branch, which has no attachments key.
Message(attachments, text) ==
  [type |-> "message", attachments |-> attachments, text |-> text]

Apology ==
  "Sorry, I encountered an error processing your message. Please try again."

NoResult == [type |-> "none", attachments |-> <<>>, text |-> ""]

\* An HTTP response: the status code and the JSON content.
Response(status, content) == [status |-> status, content |-> content]

\* The content of the responses that carry no message.
Plain(what) == [type |-> what, attachments |-> <<>>, text |-> ""]

NoResponse == Response(0, NoResult)

(***************************************************************************)
(* State                                                                   *)
(***************************************************************************)
VARIABLES
  cText,     \* the text a handler function is applied to
  cOp,       \* the function applied last ("input" before any)
  cResult,   \* the pair <<intent, city>> returned last
  cPrev,     \* the argument of the last city normalisation
  envSecret,          \* the environment variable WEBHOOK_SECRET
  agentsLoadable,     \* multi_tool_agent.agent can be imported
  agentOutcome,       \* what agent.run does when called
  agentReply,         \* the reply agent.run gives when it returns
  body,               \* the request body
  signature,          \* the X-Teams-Signature header ("" when missing)
  pc,                 \* the stage the request is in
  jsonCalls,          \* number of request.json() calls
  classifyCalls,      \* number of parse_message_intent calls
  agentCalls,         \* the agent.run calls made, in order
  intent,             \* the intent used for dispatch
  city,               \* the city used for dispatch
  agent_response,     \* the envelope route_to_agent returned
  raised,             \* the exception that left route_to_agent ("none")
  elapsed,            \* seconds the pipeline has spent in agent.run
  pytzImport,         \* what import pytz did ("untried" before)
  formatted_response, \* the card format_agent_response returned
  result,             \* what process_teams_message returned
  response,           \* the HTTP response
  tStatus,   \* the traffic status the style lookup is applied to
  tStyle,    \* the style the lookup gave ("none" before)
  health,          \* the concurrent GET /health request ("none" before)
  healthStatus,    \* the status code it was answered with (0 before)
  healthDuringRun  \* it arrived while agent.run was executing

cvars == <<cText, cOp, cResult, cPrev>>

\* The intent parse_message_intent returned ("none" before).
cIntent == cResult[1]

\* The city returned last.
cCity == cResult[2]

envvars == <<envSecret, agentsLoadable, agentOutcome, agentReply>>

reqvars == <<body, signature>>

runvars == <<pc, jsonCalls, classifyCalls, agentCalls, intent, city,
             agent_response, raised, elapsed, pytzImport, formatted_response,
             result, response>>

tvars == <<tStatus, tStyle>>

hvars == <<health, healthStatus, healthDuringRun>>

vars == <<cvars, envvars, reqvars, runvars, tvars, hvars>>

\* The handler functions are idle while a webhook request is modelled.
CIdle ==
  /\ cText = <<>>
  /\ cOp = "idle"
  /\ cResult = <<"none", None>>
  /\ cPrev = None

\* No request is read while a handler function is applied on its own.
NoRequest ==
  /\ envSecret = Unset
  /\ body = [json |-> "invalid", payload |-> NoPayload]
  /\ signature = EmptySignature(body)

\* The style lookup is idle.
TIdle ==
  /\ tStatus = "none"
  /\ tStyle = "none"

\* No other request is served at the same time.
HIdle ==
  /\ health = "none"
  /\ healthStatus = 0
  /\ healthDuringRun = FALSE

\* Nothing has been done yet.
RunStart ==
  /\ elapsed = 0
  /\ pytzImport = "untried"
  /\ jsonCalls = 0
  /\ classifyCalls = 0
  /\ agentCalls = <<>>
  /\ agent_response = NoEnvelope
  /\ raised = "none"
  /\ formatted_response = NoCard
  /\ result = NoResult
  /\ response = NoResponse

(***************************************************************************)
(* The functions of the intent extractor applied to a text                 *)
(***************************************************************************)
CInit ==
  /\ cText \in Texts \cup SubmitTexts
  /\ cOp = "input"
  /\ cResult = <<"none", None>>
  /\ cPrev = None
  /\ NoRequest
  /\ RunStart
  /\ HIdle
  /\ TIdle
  /\ pc = "idle"
  /\ intent = "none"
  /\ city = None
  /\ agentsLoadable = TRUE
  /\ agentOutcome = "reply"
  /\ agentReply = PyNone

CallExtractCity ==
  /\ cOp = "input"
  /\ cOp' = "extract_city_from_text"
  /\ cResult' = <<cIntent, extract_city_from_text(cText)>>
  /\ UNCHANGED <<cText, cPrev, envvars, reqvars, runvars, tvars, hvars>>

CallParseIntent ==
  /\ cOp = "input"
  /\ cOp' = "parse_message_intent"
  /\ cResult' = parse_message_intent(cText)
  /\ UNCHANGED <<cText, cPrev, envvars, reqvars, runvars, tvars, hvars>>

\* The normalisation applied to an arbitrary string.
CallNormalize ==
  /\ cOp = "input"
  /\ cOp' = "normalize"
  /\ cPrev' = cText
  /\ cResult' = <<cIntent, NormalizeCity(cText)>>
  /\ UNCHANGED <<cText, envvars, reqvars, runvars, tvars, hvars>>

\* The normalisation applied to a city one of the functions has returned.
CallRenormalize ==
  /\ cOp \in {"extract_city_from_text", "parse_message_intent", "normalize"}
  /\ cCity # None
  /\ cOp' = "renormalize"
  /\ cPrev' = cCity
  /\ cResult' = <<cIntent, NormalizeCity(cCity)>>
  /\ UNCHANGED <<cText, envvars, reqvars, runvars, tvars, hvars>>

ClassifyNext ==
  \/ CallExtractCity
  \/ CallParseIntent
  \/ CallNormalize
  \/ CallRenormalize

SpecClassify == CInit /\ [][ClassifyNext]_vars

(***************************************************************************)
(* teams_handler.py: process_teams_message, step by step                   *)
(***************************************************************************)
AgentIntents ==
  {MessageIntent.WEATHER, MessageIntent.TIME, MessageIntent.TRAFFIC}

\* from teams_handler import process_teams_message: teams_handler is a
\* module of this program and imports only the standard library and
\* logger_config, which app.py has imported, so the import succeeds and the
\* except ImportError branch (503) is never taken.
\* text = payload.get("text", "").strip(); intent, city = parse_message_intent(text)
\* A null text has no strip method: the except branch returns the apology.
Classify ==
  /\ pc = "parsed"
  /\ IF body.payload.text = None
       THEN /\ pc' = "returned"
            /\ result' = Message(<<>>, Apology)
            /\ UNCHANGED <<classifyCalls, intent, city>>
       ELSE LET text == IF body.payload.text = Absent
                          THEN <<>> ELSE Strip(body.payload.text)
                parsed == parse_message_intent(text)
            IN  /\ pc' = "classified"
                /\ classifyCalls' = classifyCalls + 1
                /\ intent' = parsed[1]
                /\ city' = parsed[2]
                /\ UNCHANGED result
  /\ UNCHANGED <<cvars, envvars, reqvars, tvars, hvars, jsonCalls, agentCalls,
                 agent_response, raised, elapsed, pytzImport,
                 formatted_response, response>>

\* agent_response = await route_to_agent(intent, city)
\* An exception leaving route_to_agent would end in the except branch.
\* run is a synchronous call: the coroutine spends its seconds without
\* giving control back to the event loop.
RouteFrom(p) ==
  /\ pc = p
  /\ LET r == route_to_agent(intent, city, agentsLoadable, agentOutcome,
                             agentReply)
     IN  /\ agentCalls' = agentCalls \o r.calls
         /\ raised' = r.raised
         /\ \E seconds \in IF r.calls = <<>> THEN {0} ELSE AgentSeconds :
              elapsed' = elapsed + seconds
         /\ IF r.raised = "none"
              THEN /\ agent_response' = r.envelope
                   /\ pc' = "routed"
                   /\ UNCHANGED result
              ELSE /\ pc' = "returned"
                   /\ result' = Message(<<>>, Apology)
                   /\ UNCHANGED agent_response
  /\ UNCHANGED <<cvars, envvars, reqvars, tvars, hvars, jsonCalls, classifyCalls,
                 intent, city, pytzImport, formatted_response, response>>

Route == RouteFrom("classified")

\* formatted_response = format_agent_response(agent_response); return {...}
\* adaptive_cards is a module of this program: its import succeeds and the
\* except ImportError branch is never taken.  pytz, which is not, is
\* imported when a time card is built, and only then.  An exception leaving
\* format_agent_response would end in the except branch.
Format ==
  /\ pc = "routed"
  /\ \E pytz \in IF agent_response.type = "time" THEN BOOLEAN ELSE {TRUE} :
       /\ pytzImport' = IF agent_response.type # "time" THEN pytzImport
                        ELSE IF pytz THEN "imported" ELSE "ImportError"
       /\ IF format_agent_response(agent_response, pytz).raised = "none"
            THEN /\ formatted_response' =
                      format_agent_response(agent_response, pytz).card
                 /\ result' = Message(<<formatted_response'>>, "")
            ELSE /\ result' = Message(<<>>, Apology)
                 /\ UNCHANGED formatted_response
  /\ pc' = "returned"
  /\ UNCHANGED <<cvars, envvars, reqvars, tvars, hvars, jsonCalls, classifyCalls,
                 agentCalls, intent, city, agent_response, raised, elapsed,
                 response>>

(***************************************************************************)
(* route_to_agent applied to an intent and a city                          *)
(***************************************************************************)
RouteIntents ==
  {MessageIntent.WEATHER, MessageIntent.TIME, MessageIntent.TRAFFIC,
   MessageIntent.HELP, MessageIntent.UNKNOWN, "other"}

RouteCities == {None, <<>>, <<"L", "o", "n", "d", "o", "n">>, <<"S", "a", "n", " ", "J", "o", "s", "e">>, <<" ">>}

RouteInit ==
  /\ CIdle
  /\ NoRequest
  /\ RunStart
  /\ HIdle
  /\ TIdle
  /\ pc = "classified"
  /\ intent \in RouteIntents
  /\ city \in RouteCities
  /\ agentsLoadable \in BOOLEAN
  /\ agentOutcome \in AgentOutcomes
  /\ agentReply \in AgentReplies

SpecRoute == RouteInit /\ [][Route]_vars

(***************************************************************************)
(* format_agent_response applied to an envelope, and the style lookup of   *)
(* create_traffic_card applied to a status                                 *)
(***************************************************************************)
EnvelopeTypes ==
  {"weather", "time", "traffic", "help", "error", "other", NoType}

EnvelopeCities == {Absent, None, <<"L", "o", "n", "d", "o", "n">>}

EnvelopeData ==
  {PyAbsent, EmptyDict, PyNone, Str(<<"T", "r", "a", "f", "f", "i", "c", " ", "i", "s", " ", "H", "E", "A", "V", "Y", ",", " ", "n", "o", "t", " ", "l", "i", "g", "h", "t">>), Str(<<"L", "i", "g", "h", "t", " ", "t", "r", "a", "f", "f", "i", "c">>),
   Str(<<"C", "l", "e", "a", "r", " ", "r", "o", "a", "d", "s">>), Dict([message |-> "Out of service"]),
   HelpEnvelope.data}

Envelopes ==
  {[type |-> ty, city |-> c, data |-> d, status |-> "success"] :
     ty \in EnvelopeTypes, c \in EnvelopeCities, d \in EnvelopeData}

TrafficStatuses == {"Light", "Moderate", "Heavy", "Severe", "Gridlock", ""}

FormatInit ==
  /\ CIdle
  /\ NoRequest
  /\ agentsLoadable = TRUE
  /\ agentOutcome = "reply"
  /\ agentReply = PyNone
  /\ pc = "routed"
  /\ jsonCalls = 0
  /\ classifyCalls = 0
  /\ agentCalls = <<>>
  /\ intent = "none"
  /\ city = None
  /\ agent_response \in Envelopes
  /\ raised = "none"
  /\ elapsed = 0
  /\ pytzImport = "untried"
  /\ formatted_response = NoCard
  /\ result = NoResult
  /\ response = NoResponse
  /\ tStatus \in TrafficStatuses
  /\ tStyle = "none"
  /\ HIdle

\* status_color = {...}.get(status, "Default")
CallStatusColor ==
  /\ tStatus # "none"
  /\ tStyle = "none"
  /\ tStyle' = status_color(tStatus)
  /\ UNCHANGED <<cvars, envvars, reqvars, runvars, tStatus, hvars>>

FormatNext ==
  \/ Format
  \/ CallStatusColor

SpecFormat == FormatInit /\ [][FormatNext]_vars

(***************************************************************************)
(* app.py: teams_webhook                                                   *)
(***************************************************************************)
Init ==
  /\ CIdle
  /\ envSecret \in {Unset, "", ConfiguredSecret}
  /\ agentsLoadable \in BOOLEAN
  /\ agentOutcome \in AgentOutcomes
  /\ agentReply \in AgentReplies
  /\ body \in Bodies
  /\ signature \in Signatures(body)
  /\ RunStart
  /\ HIdle
  /\ TIdle
  /\ pc = "received"
  /\ intent = "none"
  /\ city = None

Respond(status, content) ==
  /\ response' = Response(status, content)
  /\ pc' = "responded"

\* if not verify_hmac_signature(request_body, signature): raise 401
\* An exception of the comparison is caught by the handler's last except.
VerifySignature ==
  /\ pc = "received"
  /\ LET v == verify_hmac_signature(WEBHOOK_SECRET(envSecret), body,
                                    signature)
     IN  \/ /\ v = "True"
            /\ pc' = "signature_checked"
            /\ UNCHANGED response
         \/ /\ v = "False"
            /\ Respond(401, Plain("Invalid signature"))
         \/ /\ v = "TypeError"
            /\ Respond(500, Plain("Failed to process message"))
  /\ UNCHANGED <<cvars, envvars, reqvars, tvars, hvars, jsonCalls, classifyCalls,
                 agentCalls, intent, city, agent_response, raised, elapsed,
                 pytzImport, formatted_response, result>>

\* log_request(logger, payload) returns: payload is an object, and neither
\* its "from" nor its "conversation" is null (get is called on each).
Loggable(b) ==
  /\ b.json = "object"
  /\ b.payload.from # "null"
  /\ b.payload.conversation # "null"

\* payload = await request.json(); log_request(logger, payload);
\* the activity type check.
ParseBody ==
  /\ pc = "signature_checked"
  /\ jsonCalls' = jsonCalls + 1
  /\ \/ /\ body.json = "invalid"
        /\ Respond(400, Plain("Invalid JSON payload"))
     \/ /\ body.json # "invalid"
        /\ ~Loggable(body)
        /\ Respond(500, Plain("Failed to process message"))
     \/ /\ Loggable(body)
        /\ body.payload.type # "message"
        /\ Respond(200, Plain("ignored"))
     \/ /\ Loggable(body)
        /\ body.payload.type = "message"
        /\ pc' = "parsed"
        /\ UNCHANGED response
  /\ UNCHANGED <<cvars, envvars, reqvars, tvars, hvars, classifyCalls, agentCalls,
                 intent, city, agent_response, raised, elapsed, pytzImport,
                 formatted_response, result>>

\* response = await asyncio.wait_for(process_teams_message(payload),
\* timeout=REQUEST_TIMEOUT); return JSONResponse(status_code=200, ...)
\* process_teams_message never suspends: route_to_agent awaits nothing and
\* run is a plain call, so the event loop cannot run the timer of wait_for
\* before the coroutine has finished, and wait_for returns its result
\* however long it took: the except asyncio.TimeoutError branch (504) is
\* never taken.
Respond200 ==
  /\ pc = "returned"
  /\ Respond(200, result)
  /\ UNCHANGED <<cvars, envvars, reqvars, tvars, hvars, jsonCalls, classifyCalls,
                 agentCalls, intent, city, agent_response, raised, elapsed,
                 pytzImport, formatted_response, result>>

Next ==
  \/ VerifySignature
  \/ ParseBody
  \/ Classify
  \/ Route
  \/ Format
  \/ Respond200

Spec == Init /\ [][Next]_vars

(***************************************************************************)
(* app.py: the event loop serving GET /health beside a webhook request     *)
(***************************************************************************)
\* uvicorn.run("app:app", ...) starts one process with one event loop: the
\* handlers are coroutines of one thread, and another handler runs only
\* while the running one is suspended in an await.  teams_webhook can be
\* suspended in await request.body(), in await request.json() and around
\* the task asyncio.wait_for may create for process_teams_message; from
\* parse_message_intent to the return of process_teams_message nothing
\* suspends: route_to_agent awaits nothing and run is a plain call.
LoopFree == pc \notin {"classified", "in_run", "routed"}

\* route_to_agent is about to call run of an agent.
AgentWillRun ==
  route_to_agent(intent, city, agentsLoadable, agentOutcome,
                 agentReply).calls # <<>>

\* response = weather_time_agent.run(prompt) (or traffic_agent.run): the
\* call has been made and has not returned.
RunStarts ==
  /\ pc = "classified"
  /\ AgentWillRun
  /\ pc' = "in_run"
  /\ UNCHANGED <<cvars, envvars, reqvars, tvars, hvars, jsonCalls,
                 classifyCalls, agentCalls, intent, city, agent_response,
                 raised, elapsed, pytzImport, formatted_response, result,
                 response>>

\* run returns (or raises) and route_to_agent returns its envelope.
RunReturns == RouteFrom("in_run")

\* route_to_agent returns without calling an agent.
RouteWithoutRun ==
  /\ ~AgentWillRun
  /\ Route

\* A client sends GET /health: the connection is accepted by the operating
\* system whatever the event loop is doing.
HealthArrives ==
  /\ health = "none"
  /\ pc # "idle"
  /\ health' = "pending"
  /\ healthDuringRun' = (pc = "in_run")
  /\ UNCHANGED <<cvars, envvars, reqvars, runvars, tvars, healthStatus>>

\* health_check: return HealthResponse(status="healthy", ...), answered 200;
\* the event loop runs it when no other coroutine is running.
health_check ==
  /\ health = "pending"
  /\ LoopFree
  /\ health' = "responded"
  /\ healthStatus' = 200
  /\ UNCHANGED <<cvars, envvars, reqvars, runvars, tvars, healthDuringRun>>

LoopNext ==
  \/ VerifySignature
  \/ ParseBody
  \/ Classify
  \/ RunStarts
  \/ RunReturns
  \/ RouteWithoutRun
  \/ Format
  \/ Respond200
  \/ HealthArrives
  \/ health_check

SpecLoop == Init /\ [][LoopNext]_vars

(***************************************************************************)
(* Properties of the intent extractor (SpecClassify)                       *)
(***************************************************************************)
\* Some keyword of the list occurs in the lowercased text under test.
Occurs(keywords) ==
  \E i \in DOMAIN keywords : Contains(Lower(cText), keywords[i])

Parsed == cOp = "parse_message_intent"

Extracted == cOp = "extract_city_from_text"

\* C1: for every non-empty text parse_message_intent returns the first of
\* WEATHER, TIME, TRAFFIC, HELP that has a keyword occurring in the
\* lowercased text, and <<UNKNOWN, no city>> exactly when no keyword of the
\* four lists occurs.
C1_FirstCategoryWins ==
  (Parsed /\ cText # <<>>) =>
    /\ cIntent = IF Occurs(weather_keywords) THEN "weather"
                 ELSE IF Occurs(time_keywords) THEN "time"
                 ELSE IF Occurs(traffic_keywords) THEN "traffic"
                 ELSE IF Occurs(help_keywords) THEN "help"
                 ELSE "unknown"
    /\ (cIntent = "unknown") <=>
         ~(\/ Occurs(weather_keywords) \/ Occurs(time_keywords)
           \/ Occurs(traffic_keywords) \/ Occurs(help_keywords))
    /\ cIntent = "unknown" => cCity = None

\* A text with keywords of three categories was classified as the earliest.
C1_Witness ==
  /\ Parsed
  /\ Occurs(weather_keywords)
  /\ Occurs(time_keywords)
  /\ Occurs(traffic_keywords)
  /\ cIntent = "weather"

\* C2: for every text containing a weather keyword parse_message_intent
\* returns WEATHER with a city that is a non-empty string.
C2_WeatherCityNonEmpty ==
  (Parsed /\ Occurs(weather_keywords)) =>
    /\ cIntent = "weather"
    /\ cCity # None
    /\ cCity # <<>>

\* The patterns that match somewhere in the lowercased text under test.
PatternHits ==
  {i \in 1..Len(common_patterns) : Search(Lower(cText), common_patterns[i]).ok}

\* The known cities that occur in the lowercased text under test.
KnownHits ==
  {i \in 1..Len(default_cities) : Contains(Lower(cText), default_cities[i])}

Least(S) == CHOOSE i \in S : \A j \in S : i <= j

\* The normalised capture of pattern i in the lowercased text under test.
CaptureOf(i) ==
  LET m == Search(Lower(cText), common_patterns[i])
  IN  NormalizeCity(Strip(SubSeq(Lower(cText), m.from, m.to)))

C5_NormalizeIdempotent ==
  cOp = "renormalize" => cCity = cPrev

\* The normal form of a text of several words, which differs from the text,
\* was normalised again.
C5_Witness ==
  /\ cOp = "renormalize"
  /\ cPrev = NormalizeCity(cText)
  /\ cPrev # cText
  /\ Len(Split(cPrev)) >= 2
  /\ cCity = cPrev

(***************************************************************************)
(* Properties of route_to_agent (SpecRoute)                                *)
(***************************************************************************)
\* route_to_agent has been called and has returned or raised.
RouteDone == pc \in {"routed", "returned"}

\* The city the claim expects in the prompt and in the envelope.
ExpectedCity == IF city = None \/ city = <<>> THEN DefaultCity ELSE city

\* C6: when the agents are available and do not raise, route_to_agent calls
\* exactly one agent exactly once (the weather/time agent for WEATHER and
\* TIME, the traffic agent for TRAFFIC) with a prompt naming the city, an
\* absent or empty city replaced by "New York", and returns the envelope
\* {type: intent, city: that non-empty city, data: reply, status: success}.
C6_OneAgentCall ==
  (RouteDone /\ agentsLoadable /\ agentOutcome = "reply"
     /\ intent \in AgentIntents) =>
    /\ raised = "none"
    /\ Len(agentCalls) = 1
    /\ agentCalls[1].agent = IF intent = "traffic" THEN "traffic_agent"
                             ELSE "weather_time_agent"
    /\ Contains(agentCalls[1].prompt, ExpectedCity)
    /\ ExpectedCity # <<>>
    /\ agent_response = [type |-> intent, city |-> ExpectedCity,
                         data |-> agentReply,
                         status |-> "success"]

\* A TIME request with an empty city went to the weather/time agent once,
\* for New York.
C6_Witness ==
  /\ RouteDone
  /\ intent = "time"
  /\ city = <<>>
  /\ Len(agentCalls) = 1
  /\ agentCalls[1].agent = "weather_time_agent"
  /\ agent_response.status = "success"
  /\ agent_response.city = DefaultCity

\* C7: for HELP route_to_agent always returns the static help envelope and
\* for UNKNOWN or any other intent the error envelope with the fixed
\* "I didn't understand that" message, with no agent call, whether or not
\* the agent module can be loaded.
C7_NoAgentIntentsIndependent ==
  (RouteDone /\ intent \notin AgentIntents) =>
    /\ agentCalls = <<>>
    /\ intent = "help" => agent_response = HelpEnvelope
    /\ intent # "help" => agent_response = ErrorEnvelope(NotUnderstood)

\* C8: route_to_agent never lets an error reach its caller: if the agent
\* module cannot be loaded or run raises, it returns an envelope of type
\* error and status error with a generic failure message, and no envelope
\* with status success.
C8_FailuresBecomeErrorEnvelopes ==
  (RouteDone
     /\ (~agentsLoadable \/ (intent \in AgentIntents /\ agentOutcome # "reply")))
    =>
    /\ raised = "none"
    /\ agent_response.type = "error"
    /\ agent_response.status = "error"
    /\ agent_response.data \in {Dict([message |-> Unavailable]),
                                Dict([message |-> RoutingFailed])}

\* The traffic agent was called, raised, and an error envelope came back.
C8_Witness ==
  /\ RouteDone
  /\ agentsLoadable
  /\ agentOutcome = "Exception"
  /\ Len(agentCalls) = 1
  /\ agentCalls[1].agent = "traffic_agent"
  /\ raised = "none"
  /\ agent_response = ErrorEnvelope(RoutingFailed)

(***************************************************************************)
(* Properties of the webhook (Spec)                                        *)
(***************************************************************************)
\* The text of the activity is missing, null, empty or blank.
EmptyText(tx) == tx = Absent \/ tx = None \/ Strip(tx) = <<>>

HelpCard == create_help_card

\* C3: every message activity whose text is empty or missing (no key, null,
\* empty, or blank) is dispatched with intent HELP and no city, and is
\* answered with the help card.  Stated for requests that were accepted and
\* with the agent module loadable.
C3_EmptyTextGetsHelp ==
  (pc = "responded" /\ response.status = 200 /\ agentsLoadable
     /\ body.json = "object" /\ body.payload.type = "message"
     /\ EmptyText(body.payload.text)) =>
    /\ intent = "help"
    /\ city = None
    /\ response.content = Message(<<HelpCard>>, "")

\* C9: with a secret configured, every request whose signature header is
\* missing or differs from the HMAC of the raw body is answered 401, and
\* neither parsing nor classification nor an agent call happens for it.
C9_BadSignatureRejected ==
  (pc = "responded" /\ envSecret = ConfiguredSecret
     /\ signature # Hmac(ConfiguredSecret, body)) =>
    /\ response.status = 401
    /\ jsonCalls = 0
    /\ classifyCalls = 0
    /\ agentCalls = <<>>

\* C10: if the environment variable is unset or empty, every request passes
\* the signature check, whatever its signature header, and is parsed.
C10_NoSecretSkipsCheck ==
  (pc = "responded" /\ envSecret \in {Unset, ""}) =>
    /\ response.status # 401
    /\ jsonCalls = 1

\* The signature check let the request through.
Accepted ==
  verify_hmac_signature(WEBHOOK_SECRET(envSecret), body, signature) = "True"

\* The request is an activity of type "message".
MessageActivity == body.json = "object" /\ body.payload.type = "message"

\* C11: every correctly signed, parseable request whose activity type is
\* not "message" (a missing type included) is answered 200 with the body
\* {status: ignored}, and nothing is classified, no agent is called and no
\* card is rendered for it.
C11_NonMessageIgnored ==
  (pc = "responded" /\ Accepted /\ body.json = "object"
     /\ body.payload.type # "message") =>
    /\ response = Response(200, Plain("ignored"))
    /\ classifyCalls = 0
    /\ agentCalls = <<>>
    /\ formatted_response = NoCard

\* C12: a request whose pipeline took longer than the timeout is answered
\* 504, never 200 with the late result, also when the synchronous run call
\* is the slow step.
C12_LateResultIs504 ==
  (pc = "responded" /\ elapsed > REQUEST_TIMEOUT) => response.status = 504

\* C13: when the agent module cannot be loaded, a correctly signed message
\* activity that needs an agent is answered with status 503.
C13_AgentsUnavailable503 ==
  (pc = "responded" /\ Accepted /\ MessageActivity /\ ~agentsLoadable
     /\ classifyCalls = 1 /\ intent \in AgentIntents) =>
    response.status = 503

\* C14: a correctly signed request whose body is no valid JSON, or is JSON
\* but no activity object, is answered 400, never 500, and nothing is
\* classified and no agent is called for it.
C14_MalformedBody400 ==
  (pc = "responded" /\ Accepted /\ body.json \in {"invalid", "array"}) =>
    /\ response.status = 400
    /\ classifyCalls = 0
    /\ agentCalls = <<>>

\* process_teams_message was called for the request.
Processed == pc = "responded" /\ result # NoResult

\* The attachment is an Adaptive Card 1.4 with a body.
WellFormedCard(c) ==
  /\ c.contentType = "application/vnd.microsoft.card.adaptive"
  /\ c.content.type = "AdaptiveCard"
  /\ c.content.version = "1.4"
  /\ c.content.body # <<>>

\* The first text of a card: its title.
CardTitle(c) == c.content.body[1].items[1].text

\* The card shows an error: the attention container titled Error, with the
\* message.
IsErrorCard(c, message) ==
  /\ WellFormedCard(c)
  /\ c.content.body[1].style = "attention"
  /\ CardTitle(c) = Text("Error", <<>>)
  /\ c.content.body[1].items[2].text = Text(message, <<>>)

ErrorMessages ==
  {"I didn't understand that. Try asking about weather, time, or traffic!",
   "Agent service is temporarily unavailable",
   "An error occurred while processing your request",
   "Failed to format response. Please try again."}

\* The request failed logically: the intent is unknown, run raised, or
\* building the card raised.
LogicalFailure ==
  /\ classifyCalls = 1
  /\ \/ intent = "unknown"
     \/ agentCalls # <<>> /\ agentOutcome # "reply"
     \/ pytzImport = "ImportError"

\* C15: the status is not 200 only for failures before the pipeline (bad
\* signature 401, malformed body 400, unavailable 503, timeout 504,
\* unhandled error 500); every correctly signed message activity that fails
\* logically (unknown intent, the agent raising, an exception while the
\* card is built) is answered 200 with one error card.
C15_LogicalFailuresAnswered200 ==
  /\ (pc = "responded" /\ response.status # 200) =>
       /\ response.status \in {400, 401, 500, 503, 504}
       /\ classifyCalls = 0
       /\ agentCalls = <<>>
       /\ result = NoResult
  /\ (pc = "responded" /\ Accepted /\ MessageActivity /\ LogicalFailure) =>
       /\ response.status = 200
       /\ response.content.type = "message"
       /\ Len(response.content.attachments) = 1
       /\ \E m \in ErrorMessages :
            IsErrorCard(response.content.attachments[1], m)

\* pytz could not be imported while the time card was built, and the
\* request was answered 200 with the "Failed to format response" card.
C15_Witness ==
  /\ pc = "responded"
  /\ intent = "time"
  /\ pytzImport = "ImportError"
  /\ response.status = 200
  /\ Len(response.content.attachments) = 1
  /\ IsErrorCard(response.content.attachments[1],
                 "Failed to format response. Please try again.")

\* C16: every 200 response to a processed message activity is a message
\* whose attachments hold exactly one card (content type
\* application/vnd.microsoft.card.adaptive, AdaptiveCard 1.4, non-empty
\* body), whatever the text, from and conversation of the payload.
C16_OneCardPerMessage ==
  (Processed /\ response.status = 200) =>
    /\ response.content.type = "message"
    /\ Len(response.content.attachments) = 1
    /\ WellFormedCard(response.content.attachments[1])

(***************************************************************************)
(* Properties of format_agent_response (SpecFormat)                        *)
(***************************************************************************)
\* The city a card shows for the envelope: "Unknown" without the key.
ShownCity(c) ==
  IF c = Absent THEN <<"U", "n", "k", "n", "o", "w", "n">> ELSE IF c = None THEN <<"N", "o", "n", "e">> ELSE c

\* The title the claim expects of the card of an agent type.
ExpectedTitle(type, c) ==
  IF type = "weather" THEN Text("Weather in {city}", ShownCity(c))
  ELSE IF type = "time" THEN Text("Time in {city}", ShownCity(c))
  ELSE Text("Traffic in {city}", ShownCity(c))

\* The status line of a traffic card and the style of its container.
StatusShown(c) == c.content.body[2].items[1].text.arg[1]

StyleShown(c) == c.content.body[2].style

\* C17: format_agent_response never raises and always returns a
\* well-formed card: for every envelope (type or city missing, data empty,
\* missing or of an unexpected shape) the card of the builder its type
\* selects, any other type giving an error card, with placeholders for what
\* is absent; an exception while building gives the error card "Failed to
\* format response".
C17_FormatNeverFails ==
  pc = "returned" =>
    LET ty == agent_response.type
        data == agent_response.data
        card == formatted_response
    IN  /\ result = Message(<<card>>, "")
        /\ WellFormedCard(card)
        /\ ty = "weather" =>
             /\ CardTitle(card) = ExpectedTitle(ty, agent_response.city)
             /\ data.py # "str" =>
                  card.content.body[3].text =
                    Text("Pleasant weather expected throughout the day.", <<>>)
        /\ (ty = "time" /\ pytzImport = "imported") =>
             CardTitle(card) = ExpectedTitle(ty, agent_response.city)
        /\ (ty = "time" /\ pytzImport = "ImportError") =>
             IsErrorCard(card, "Failed to format response. Please try again.")
        /\ ty = "traffic" =>
             /\ CardTitle(card) = ExpectedTitle(ty, agent_response.city)
             /\ data.py # "str" => StatusShown(card) = "Moderate"
        /\ ty = "help" =>
             CardTitle(card) = Text("Welcome to ADK Weather Bot!", <<>>)
        /\ (ty = "error" /\ data.py \in {"dict", "absent"}) =>
             IsErrorCard(card, IF data.py = "dict" /\ "message" \in DOMAIN data.val
                                 THEN data.val.message
                               ELSE "An error occurred")
        /\ (ty = "error" /\ data.py \notin {"dict", "absent"}) =>
             IsErrorCard(card, "Failed to format response. Please try again.")
        /\ ty \in {"other", "<absent>"} =>
             IsErrorCard(card,
                         "I didn't understand your request. Please try again.")

\* An error envelope whose data is a string, on which get fails, was
\* answered with the "Failed to format response" card.
C17_Witness ==
  /\ pc = "returned"
  /\ agent_response.type = "error"
  /\ agent_response.data.py = "str"
  /\ result.attachments = <<formatted_response>>
  /\ IsErrorCard(formatted_response,
                 "Failed to format response. Please try again.")

\* The style the claim gives each status.
ClaimedStyle(status) ==
  CASE status = "Light" -> "Good"
    [] status = "Moderate" -> "Warning"
    [] status \in {"Heavy", "Severe"} -> "Attention"
    [] OTHER -> "Default"

\* format_agent_response has returned the card of a traffic envelope.
TrafficCardBuilt == pc = "returned" /\ agent_response.type = "traffic"

\* C19: the style of the traffic card is a fixed function of the status:
\* Light gives Good, Moderate gives Warning, Heavy and Severe give
\* Attention, every other status gives Default; and the status the card
\* shows is the status that selected its style.
C19_StyleFollowsStatus ==
  /\ tStyle # "none" => tStyle = ClaimedStyle(tStatus)
  /\ TrafficCardBuilt =>
       StyleShown(formatted_response) =
         ClaimedStyle(StatusShown(formatted_response))

\* An unrecognised status was looked up and gave Default, and a card built
\* from a reply naming heavy traffic shows Heavy in the Attention style.
C19_Witness ==
  /\ tStatus = "Gridlock"
  /\ tStyle = "Default"
  /\ TrafficCardBuilt
  /\ agent_response.data = Str(<<"T", "r", "a", "f", "f", "i", "c", " ", "i", "s", " ", "H", "E", "A", "V", "Y", ",", " ", "n", "o", "t", " ", "l", "i", "g", "h", "t">>)
  /\ StatusShown(formatted_response) = "Heavy"
  /\ StyleShown(formatted_response) = "Attention"

(***************************************************************************)
(* Properties of the cards the webhook answers with (Spec)                 *)
(***************************************************************************)
\* The cities the request texts name.
CityNames ==
  {NormalizeCity(default_cities[i]) : i \in DOMAIN default_cities}
    \cup {<<"L", "o", "n", "d", "o", "n">>}

\* The agent was called for the request and returned its reply.
AgentReplied ==
  /\ classifyCalls = 1
  /\ intent \in AgentIntents
  /\ agentCalls # <<>>
  /\ agentOutcome = "reply"

\* C18: for a correctly signed message classified as WEATHER, TIME or
\* TRAFFIC with extracted city c, when the agent returns a reply, the one
\* card of the response is the card of that type and its title names c
\* (New York when none was extracted); the city shown is a city, never
\* another word of the question.
C18_CardNamesTheCity ==
  (pc = "responded" /\ Accepted /\ MessageActivity /\ AgentReplied) =>
    /\ response.status = 200
    /\ Len(response.content.attachments) = 1
    /\ CardTitle(response.content.attachments[1]) =
         ExpectedTitle(intent, ExpectedCity)
    /\ CardTitle(response.content.attachments[1]).arg \in CityNames

\* The three buttons of the help card.
HelpButtons(c) ==
  /\ Len(c.content.actions) = 3
  /\ \A i \in 1..3 : c.content.actions[i].type = "Action.Submit"
  /\ [i \in 1..3 |-> c.content.actions[i].data.action] =
       <<"weather", "time", "traffic">>

\* C20: the help card is static: format_agent_response returns the same
\* card, with exactly three Action.Submit buttons (weather, time,
\* traffic), for every envelope of type help; and a correctly signed
\* message with the text "help" is answered with this card.
C20_HelpCardStatic ==
  /\ (pc \in {"returned", "responded"} /\ agent_response.type = "help") =>
       /\ formatted_response = HelpCard
       /\ HelpButtons(formatted_response)
  /\ (pc = "responded" /\ Accepted /\ MessageActivity
        /\ body.payload.text = <<"h", "e", "l", "p">>) =>
       /\ response.status = 200
       /\ response.content.attachments = <<HelpCard>>
       /\ HelpButtons(response.content.attachments[1])

(***************************************************************************)
(* The order of the stages of a request (Spec)                             *)
(***************************************************************************)
\* The position of the request: RECEIVED, SIGNATURE_CHECKED, PARSED,
\* CLASSIFIED, ROUTED, FORMATTED (process_teams_message has returned its
\* result), RESPONDED.
Stage(p) ==
  CASE p = "received" -> 1
    [] p = "signature_checked" -> 2
    [] p = "parsed" -> 3
    [] p = "classified" -> 4
    [] p = "routed" -> 5
    [] p = "returned" -> 6
    [] p = "responded" -> 7
    [] OTHER -> 0

\* C21: every step of a request moves it to a later stage, so that no
\* stage is entered twice and none is gone back to; a step that skips a
\* stage is a failure and ends in the response, or in the apology that the
\* next step answers with; a response is written in the step that enters
\* RESPONDED and in no other; the body is parsed, the text classified and
\* the agent called at most once, whatever the agent does and however long
\* it takes.
C21_StagesInOrder ==
  [][/\ Stage(pc') > Stage(pc)
     /\ Stage(pc') > Stage(pc) + 1 =>
          \/ pc' = "responded"
          \/ pc' = "returned" /\ result' = Message(<<>>, Apology)
     /\ pc = "returned" => pc' = "responded"
     /\ (response' # response) <=> (pc' = "responded")
     /\ (pc' = "responded") => response' # NoResponse
     /\ jsonCalls' <= 1
     /\ classifyCalls' <= 1
     /\ Len(agentCalls') <= 1]_vars

\* A request whose agent raised, after 31 seconds, has been answered: the
\* agent was called once.
C21_Witness ==
  /\ pc = "responded"
  /\ agentOutcome = "Exception"
  /\ Len(agentCalls) = 1
  /\ elapsed > REQUEST_TIMEOUT
  /\ response.status = 200

(***************************************************************************)
(* The Submit actions of the cards (SpecClassify)                          *)
(***************************************************************************)
\* C23: the text of every Submit action of the help card and of the error
\* card is classified as the intent its action field names, and for the
\* weather, time and traffic buttons the city extracted is New York.
C23_SubmitTextsReenter ==
  Parsed =>
    \A d \in SubmitData :
      d.text = cText =>
        /\ cIntent = d.action
        /\ d.action \in AgentIntents =>
             cCity = <<"N", "e", "w", " ", "Y", "o", "r", "k">>

(***************************************************************************)
(* The status of a traffic card (SpecFormat)                               *)
(***************************************************************************)
\* The reply is a string in which the word occurs, in any case.
Says(data, word) == data.py = "str" /\ Contains(Lower(data.val), word)

\* C25: the status a traffic card shows is Heavy, Light or Moderate and
\* its style Attention, Good or Warning, never Severe nor Default: Heavy
\* for a string reply containing "heavy", also when it contains "light",
\* Light for a string reply containing "light" and not "heavy", Moderate
\* for every other reply, a reply that is not a string included.
C25_StatusIsOneOfThree ==
  TrafficCardBuilt =>
    LET data == agent_response.data
        status == StatusShown(formatted_response)
    IN  /\ status \in {"Heavy", "Light", "Moderate"}
        /\ StyleShown(formatted_response) \in {"Attention", "Good", "Warning"}
        /\ Says(data, <<"h", "e", "a", "v", "y">>) => status = "Heavy"
        /\ (Says(data, <<"l", "i", "g", "h", "t">>) /\ ~Says(data, <<"h", "e", "a", "v", "y">>)) => status = "Light"
        /\ (~Says(data, <<"h", "e", "a", "v", "y">>) /\ ~Says(data, <<"l", "i", "g", "h", "t">>)) => status = "Moderate"
        /\ data.py # "str" => status = "Moderate"

\* A traffic card was built from a reply containing both words, and shows
\* Heavy.
C25_Witness ==
  /\ TrafficCardBuilt
  /\ Says(agent_response.data, <<"h", "e", "a", "v", "y">>)
  /\ Says(agent_response.data, <<"l", "i", "g", "h", "t">>)
  /\ StatusShown(formatted_response) = "Heavy"

(***************************************************************************)
(* Requests served at the same time (SpecLoop)                             *)
(***************************************************************************)
\* The run call of the webhook request has returned.
RunReturned ==
  /\ agentCalls # <<>>
  /\ pc \in {"routed", "returned", "responded"}

\* C24: a GET /health that arrives while a webhook request is in its
\* agent's run call is answered 200 before that call returns: once the
\* call has returned, the health request has its answer.
C24_HealthAnsweredDuringRun ==
  (healthDuringRun /\ RunReturned) =>
    /\ health = "responded"
    /\ healthStatus = 200

====
